---------------------------- MODULE Spec2Model ----------------------------
(***************************************************************************)
(* A model of src/trapezoidal_rule.cpp: the routine trapezoidal_rule and   *)
(* the self-test test().                                                   *)
(*                                                                         *)
(* A double is modelled as an exact rational num/den, or one of the IEEE   *)
(* special values +Inf, -Inf, NaN.  A finite result whose magnitude        *)
(* exceeds MaxFinite (the model's DBL_MAX) overflows to an infinity, and   *)
(* the special values propagate as IEEE 754 prescribes.  Rounding of the   *)
(* significand is not modelled in this part: inside the finite range the   *)
(* arithmetic is exact, which is the "exact arithmetic" the algebraic      *)
(* properties of the rule are stated in.  Signed zeros are not             *)
(* distinguished.                                                          *)
(***************************************************************************)
EXTENDS Integers, Sequences, FiniteSets, TLC

(***************************************************************************)
(* Bounds of the model.                                                    *)
(***************************************************************************)
\* largest subdivision count n drawn as an input (0 is included)
MaxN == 4
\* largest finite magnitude of a double in the model (DBL_MAX scaled down)
MaxFinite == 10000
\* the interval bounds a, b are drawn from MinEnd..MaxEnd
MaxEnd == 2

MinEnd == 0 - 1

Ends == MinEnd..MaxEnd

(***************************************************************************)
(* Doubles.                                                                *)
(***************************************************************************)
Abs(x) == IF x < 0 THEN 0 - x ELSE x

RECURSIVE GCD(_, _)
GCD(x, y) == IF y = 0 THEN Abs(x) ELSE GCD(Abs(y), Abs(x) % Abs(y))

Sgn(x) == IF x > 0 THEN 1 ELSE IF x < 0 THEN 0 - 1 ELSE 0

\* the finite double num/den (den > 0), in lowest terms
Fin(num, den) ==
    LET g == GCD(num, den)
    IN  [k |-> "fin", n |-> num \div g, d |-> den \div g]

PInf == [k |-> "inf", n |-> 1, d |-> 0]
NInf == [k |-> "inf", n |-> 0 - 1, d |-> 0]
NaN == [k |-> "nan", n |-> 0, d |-> 0]
\* the content of a local that has not been assigned yet
Unset == [k |-> "unset", n |-> 0, d |-> 0]

InfOf(s) == IF s > 0 THEN PInf ELSE NInf

IsFinite(x) == x.k = "fin"
IsNaN(x) == x.k = "nan"
IsInf(x) == x.k = "inf"

\* conversion int -> double (the operands n, i and the literal 2)
FromInt(m) == [k |-> "fin", n |-> m, d |-> 1]

Zero == FromInt(0)
Two == FromInt(2)

\* exact arithmetic on finite values (the real result, never rounded)
qneg(x) == [x EXCEPT !.n = 0 - x.n]

qadd(x, y) ==
    LET g == GCD(x.d, y.d)
    IN  Fin(x.n * (y.d \div g) + y.n * (x.d \div g), (x.d \div g) * y.d)

qsub(x, y) == qadd(x, qneg(y))

qmul(x, y) ==
    LET g1 == GCD(x.n, y.d)
        g2 == GCD(y.n, x.d)
    IN  Fin((x.n \div g1) * (y.n \div g2), (x.d \div g2) * (y.d \div g1))

\* x / y for y # 0
qdiv(x, y) == qmul(x, [k |-> "fin", n |-> Sgn(y.n) * y.d, d |-> Abs(y.n)])

qabs(x) == [x EXCEPT !.n = Abs(x.n)]

qle(x, y) == x.n * y.d <= y.n * x.d

\* the double a real result r is delivered as: beyond MaxFinite it overflows
Overflow(r) ==
    IF r.n > MaxFinite * r.d THEN PInf
    ELSE IF r.n < 0 - (MaxFinite * r.d) THEN NInf
    ELSE r

(***************************************************************************)
(* Rounded doubles.  The reference values of test() have denominators no   *)
(* exact rational of the model's integers can hold, so test() runs on      *)
(* enclosures: [k |-> "iv", lo, hi] stands for a double whose real value   *)
(* lies between lo / Scale and hi / Scale.  Every operation rounds the     *)
(* lower end down and the upper end up, so the enclosure of a result holds *)
(* the real result of the operands' real values; the double the program    *)
(* computes differs from that real result by rounding errors of about      *)
(* 1e-16, far below 1 / Scale.  An operation with no enclosure (a divisor  *)
(* that may be zero, exp outside [-1, 0], a special operand) yields NaN.   *)
(***************************************************************************)
Scale == 10 ^ 7

\* exp is evaluated in units of 1 / (Scale * Guard)
Guard == 10

Iv(lo, hi) == [k |-> "iv", lo |-> lo, hi |-> hi]

IsIv(x) == x.k = "iv"

\* <<quotient, remainder>> of u * v by w for u, v >= 0 and 0 < w < 2^28, one
\* octal digit of v at a time, so that no intermediate value leaves the 32-bit
\* integers
RECURSIVE MulDiv(_, _, _)
MulDiv(u, v, w) ==
    IF v = 0 THEN <<0, 0>>
    ELSE LET m == MulDiv(u, v \div 8, w)
             r == ((8 * m[2]) % w) + (u % w) * (v % 8)
         IN  <<8 * m[1] + ((8 * m[2]) \div w) + (u \div w) * (v % 8) + (r \div w), r % w>>

\* floor(u * v / w) and ceiling(u * v / w) for integers u, v and w > 0
FloorMulDiv(u, v, w) ==
    LET m == MulDiv(Abs(u), Abs(v), w)
    IN  IF Sgn(u) * Sgn(v) >= 0 THEN m[1]
        ELSE 0 - (m[1] + (IF m[2] > 0 THEN 1 ELSE 0))

CeilMulDiv(u, v, w) ==
    LET m == MulDiv(Abs(u), Abs(v), w)
    IN  IF Sgn(u) * Sgn(v) >= 0 THEN m[1] + (IF m[2] > 0 THEN 1 ELSE 0)
        ELSE 0 - m[1]

Min4(p, q, r, t) ==
    LET m1 == IF p <= q THEN p ELSE q
        m2 == IF r <= t THEN r ELSE t
    IN  IF m1 <= m2 THEN m1 ELSE m2

Max4(p, q, r, t) ==
    LET m1 == IF p >= q THEN p ELSE q
        m2 == IF r >= t THEN r ELSE t
    IN  IF m1 >= m2 THEN m1 ELSE m2

\* the enclosure of a finite value
ToIv(x) ==
    IF IsIv(x) THEN x
    ELSE Iv(FloorMulDiv(x.n, Scale, x.d), CeilMulDiv(x.n, Scale, x.d))

Enclosed(x) == x.k \in {"iv", "fin"}

ivadd(x, y) == Iv(x.lo + y.lo, x.hi + y.hi)

ivmul(x, y) ==
    Iv(Min4(FloorMulDiv(x.lo, y.lo, Scale), FloorMulDiv(x.lo, y.hi, Scale),
            FloorMulDiv(x.hi, y.lo, Scale), FloorMulDiv(x.hi, y.hi, Scale)),
       Max4(CeilMulDiv(x.lo, y.lo, Scale), CeilMulDiv(x.lo, y.hi, Scale),
            CeilMulDiv(x.hi, y.lo, Scale), CeilMulDiv(x.hi, y.hi, Scale)))

\* x / y for a divisor that is not zero: u / v = (u * sign v) / |v|
ivdiv(x, y) ==
    LET s == IF y.lo > 0 THEN 1 ELSE 0 - 1
    IN  Iv(Min4(FloorMulDiv(s * x.lo, Scale, Abs(y.lo)), FloorMulDiv(s * x.lo, Scale, Abs(y.hi)),
                FloorMulDiv(s * x.hi, Scale, Abs(y.lo)), FloorMulDiv(s * x.hi, Scale, Abs(y.hi))),
           Max4(CeilMulDiv(s * x.lo, Scale, Abs(y.lo)), CeilMulDiv(s * x.lo, Scale, Abs(y.hi)),
                CeilMulDiv(s * x.hi, Scale, Abs(y.lo)), CeilMulDiv(s * x.hi, Scale, Abs(y.hi))))

\* exp(-t) = P0 with Pj = 1 - (t / (j + 1)) P(j+1), and 0 <= Pj <= 1 for
\* 0 <= t <= 1.  From bounds P = <<lo, hi>> of Pj, in units of
\* 1 / (Scale * Guard), the bounds of P(j-1); t is in the same units.
HornerStep(t, j, P) ==
    LET one == Scale * Guard
        up == MulDiv(t, P[2], one)
        dn == MulDiv(t, P[1], one)
    IN  <<one - (((up[1] + (IF up[2] > 0 THEN 1 ELSE 0)) + (j - 1)) \div j),
          one - (dn[1] \div j)>>

\* the bounds of exp(-t): thirteen steps down from 0 <= P13 <= 1, each taken
\* from the bounds computed before it
ExpNeg(t) ==
    LET p12 == HornerStep(t, 13, <<0, Scale * Guard>>)
        p11 == HornerStep(t, 12, p12)
        p10 == HornerStep(t, 11, p11)
        p9 == HornerStep(t, 10, p10)
        p8 == HornerStep(t, 9, p9)
        p7 == HornerStep(t, 8, p8)
        p6 == HornerStep(t, 7, p7)
        p5 == HornerStep(t, 6, p6)
        p4 == HornerStep(t, 5, p5)
        p3 == HornerStep(t, 4, p4)
        p2 == HornerStep(t, 3, p3)
        p1 == HornerStep(t, 2, p2)
        p0 == HornerStep(t, 1, p1)
    IN  <<p12, p11, p10, p9, p8, p7, p6, p5, p4, p3, p2, p1, p0>>[13]

\* exp(x) for -1 <= x <= 0; exp is increasing, so the ends are those of x
ivexp(x) ==
    Iv(ExpNeg((0 - x.lo) * Guard)[1] \div Guard,
       (ExpNeg((0 - x.hi) * Guard)[2] + (Guard - 1)) \div Guard)

(***************************************************************************)
(* The operations of double.                                               *)
(***************************************************************************)
fneg(x) == IF IsIv(x) THEN Iv(0 - x.hi, 0 - x.lo) ELSE [x EXCEPT !.n = 0 - x.n]

\* x + y
fadd(x, y) ==
    IF IsIv(x) \/ IsIv(y)
    THEN (IF Enclosed(x) /\ Enclosed(y) THEN ivadd(ToIv(x), ToIv(y)) ELSE NaN)
    ELSE IF IsNaN(x) \/ IsNaN(y) THEN NaN
    ELSE IF IsInf(x) /\ IsInf(y) THEN (IF x.n = y.n THEN x ELSE NaN)
    ELSE IF IsInf(x) THEN x
    ELSE IF IsInf(y) THEN y
    ELSE Overflow(qadd(x, y))

\* x - y
fsub(x, y) == fadd(x, fneg(y))

\* x * y
fmul(x, y) ==
    IF IsIv(x) \/ IsIv(y)
    THEN (IF Enclosed(x) /\ Enclosed(y) THEN ivmul(ToIv(x), ToIv(y)) ELSE NaN)
    ELSE IF IsNaN(x) \/ IsNaN(y) THEN NaN
    ELSE IF IsInf(x) \/ IsInf(y)
         THEN (IF x.n = 0 \/ y.n = 0 THEN NaN ELSE InfOf(Sgn(x.n) * Sgn(y.n)))
    ELSE Overflow(qmul(x, y))

\* x / y
fdiv(x, y) ==
    IF IsIv(x) \/ IsIv(y)
    THEN (IF Enclosed(x) /\ Enclosed(y) /\ (ToIv(y).lo > 0 \/ ToIv(y).hi < 0)
          THEN ivdiv(ToIv(x), ToIv(y)) ELSE NaN)
    ELSE IF IsNaN(x) \/ IsNaN(y) THEN NaN
    ELSE IF IsInf(x) THEN (IF IsInf(y) THEN NaN
                           ELSE InfOf(x.n * (IF y.n < 0 THEN 0 - 1 ELSE 1)))
    ELSE IF IsInf(y) THEN Zero
    ELSE IF y.n = 0 THEN (IF x.n = 0 THEN NaN ELSE InfOf(x.n))
    ELSE Overflow(qdiv(x, y))

\* exp(x) of <cmath>
fexp(x) ==
    IF Enclosed(x) /\ ToIv(x).lo >= 0 - Scale /\ ToIv(x).hi <= 0
    THEN ivexp(ToIv(x))
    ELSE NaN

\* abs(x) of <cmath>
fabs(x) ==
    IF IsIv(x)
    THEN (IF x.lo >= 0 THEN x
          ELSE IF x.hi <= 0 THEN Iv(0 - x.hi, 0 - x.lo)
          ELSE Iv(0, IF 0 - x.lo >= x.hi THEN 0 - x.lo ELSE x.hi))
    ELSE [x EXCEPT !.n = Abs(x.n)]

\* x < y holds for every pair of values enclosed (false on a NaN)
flt(x, y) ==
    /\ Enclosed(x) /\ Enclosed(y)
    /\ ToIv(x).hi < ToIv(y).lo

(***************************************************************************)
(* The integrands.  The routine takes any function double -> double; the   *)
(* model draws it from a family of descriptors:                            *)
(*   poly    c[1] + c[2] x + c[3] x^2 + c[4] x^3 + c[5] x^4                *)
(*   recip   1 / x               (func1 of test())                         *)
(*   recipsq 1 / (1 + x * x)     (func3 of test())                         *)
(*   expneg  exp(-x)             (func2 of test())                         *)
(*   comb    al * f(x) + be * g(x)  for two integrands f, g of the above   *)
(***************************************************************************)
Poly(c0, c1, c2, c3, c4) == [kind |-> "poly", c |-> <<c0, c1, c2, c3, c4>>]
Recip == [kind |-> "recip"]
RecipSq == [kind |-> "recipsq"]
ExpNegX == [kind |-> "expneg"]
Comb(al, f, be, g) == [kind |-> "comb", al |-> al, f |-> f, be |-> be, g |-> g]

\* coefficients of the linear integrands c0 + c1 x
Coefs == {0 - 1, 0, 2}

LinearFuncs == {Poly(c0, c1, 0, 0, 0) : c0, c1 \in Coefs}

\* an integrand whose values are the largest finite double
Huge == Poly(MaxFinite, 0, 0, 0, 0)

CurvedFuncs ==
    { Poly(0, 0, 1, 0, 0), Poly(0, 0, 0 - 1, 0, 0), Poly(0, 0, 0, 1, 0),
      Poly(1, 0, 2, 0, 1), Poly(0, 0, 0 - 9, 0, 5), Poly(0, 1, 0, 0 - 1, 0) }

BaseFuncs == LinearFuncs \cup CurvedFuncs \cup {Huge, Recip, RecipSq}

\* the integrands and factors the linear combinations are built from
CombFuncs == {Poly(0, 1, 0, 0, 0), Poly(0, 0, 0 - 9, 0, 5), Recip}
Factors == {0 - 1, 2}

CombinedFuncs == {Comb(al, f, be, g) : al, be \in Factors, f, g \in CombFuncs}

\* the value func(x)
RECURSIVE Apply(_, _)
Apply(f, x) ==
    CASE f.kind = "poly" ->
           fadd(FromInt(f.c[1]),
             fmul(x, fadd(FromInt(f.c[2]),
               fmul(x, fadd(FromInt(f.c[3]),
                 fmul(x, fadd(FromInt(f.c[4]), fmul(x, FromInt(f.c[5]))))))))) 
      [] f.kind = "recip" -> fdiv(FromInt(1), x)
      [] f.kind = "recipsq" -> fdiv(FromInt(1), fadd(FromInt(1), fmul(x, x)))
      [] f.kind = "expneg" -> fexp(fneg(x))
      [] f.kind = "comb" ->
           fadd(fmul(FromInt(f.al), Apply(f.f, x)), fmul(FromInt(f.be), Apply(f.g, x)))

(***************************************************************************)
(* trapezoidal_rule, expression by expression.                             *)
(***************************************************************************)
\* a slip: value starts at 1.0
InitialValueOne == FromInt(1)

\* line 60: the initial value 0.0 of value
InitialValue == Zero

\* a slip: the width is made positive, h = |b - a| / n
StepWidthAbs(a0, b0, n0) == fdiv(fabs(fsub(b0, a0)), FromInt(n0))

\* a slip: n = 0 is caught and the width taken as 0
StepWidthGuarded(a0, b0, n0) ==
    IF n0 = 0 THEN Zero ELSE fdiv(fsub(b0, a0), FromInt(n0))

\* line 61: h = (b - a) / n
StepWidth(a0, b0, n0) == fdiv(fsub(b0, a0), FromInt(n0))

\* a slip: the loop runs up to i = n
LoopCondInclusive(i0, n0) == i0 <= n0

\* line 62: the loop condition i <= n - 1
LoopCond(i0, n0) == i0 <= n0 - 1

\* a slip: the points start at a, a + ((i - 1) * h)
PointFromZero(a0, h0, i0) == fadd(a0, fmul(FromInt(i0 - 1), h0))

\* line 64: the argument a + (i * h)
Point(a0, h0, i0) == fadd(a0, fmul(FromInt(i0), h0))

\* a slip: value = func(...) instead of value += func(...)
AccumulateAssign(value0, y) == y

\* line 64: value += func(...)
Accumulate(value0, y) == fadd(value0, y)

\* a slip: the interior sum is not doubled
CombineNoDouble(ya, value0, yb, h0) ==
    fdiv(fmul(fadd(fadd(ya, value0), yb), h0), Two)

\* a slip: the division by 2 is missing
CombineNoHalf(ya, value0, yb, h0) ==
    fmul(fadd(fadd(ya, fmul(Two, value0)), yb), h0)

\* line 67: (func(a) + 2 * value + func(b)) * h / 2
Combine(ya, value0, yb, h0) ==
    fdiv(fmul(fadd(fadd(ya, fmul(Two, value0)), yb), h0), Two)

\* lines 62-65: value after the iterations i0, i0 + 1, ..., n - 1
RECURSIVE InteriorSum(_, _, _, _, _, _)
InteriorSum(f, a0, h0, n0, i0, value0) ==
    IF LoopCond(i0, n0)
    THEN InteriorSum(f, a0, h0, n0, i0 + 1, Accumulate(value0, Apply(f, Point(a0, h0, i0))))
    ELSE value0

\* lines 58-69: the value one call returns when it runs alone
trapezoidal_rule(f, a0, b0, n0) ==
    LET h0 == StepWidth(a0, b0, n0)
    IN  Combine(Apply(f, a0), InteriorSum(f, a0, h0, n0, 1, InitialValue), Apply(f, b0), h0)


(***************************************************************************)
(* The state: one activation of trapezoidal_rule per call site.  Every     *)
(* variable maps a call site to that activation's parameter or local.      *)
(***************************************************************************)
VARIABLES
    pc,      \* the line the activation is at, "done" once it has returned
    func,    \* parameter func
    a,       \* parameter a
    b,       \* parameter b
    n,       \* parameter n
    value,   \* local value
    h,       \* local h
    i,       \* loop variable i
    y,       \* the value func returned at line 64, before it is added to value
    fa,      \* the value of func(a) at line 67
    fb,      \* the value of func(b) at line 67
    calls,   \* the arguments func was invoked with, in order
    ret,     \* the value returned to the caller
    ncalls,  \* how many calls the call site has made
    tpc      \* the line test() is at, "none" when test() is not running

vars == <<pc, func, a, b, n, value, h, i, y, fa, fb, calls, ret, ncalls, tpc>>

Sites == {1, 2}

args == <<func, a, b, n>>

caller == <<ncalls, tpc>>

\* the locals of a fresh activation
Fresh(p) ==
    /\ value' = [value EXCEPT ![p] = Unset]
    /\ h' = [h EXCEPT ![p] = Unset]
    /\ i' = [i EXCEPT ![p] = 0]
    /\ y' = [y EXCEPT ![p] = Unset]
    /\ fa' = [fa EXCEPT ![p] = Unset]
    /\ fb' = [fb EXCEPT ![p] = Unset]
    /\ calls' = [calls EXCEPT ![p] = <<>>]
    /\ ret' = [ret EXCEPT ![p] = Unset]

\* line 60: double value = 0.0
L60(p) ==
    /\ pc[p] = "L60"
    /\ value' = [value EXCEPT ![p] = InitialValue]
    /\ pc' = [pc EXCEPT ![p] = "L61"]
    /\ UNCHANGED <<args, h, i, y, fa, fb, calls, ret, caller>>

\* line 61: double h = (b - a) / n
L61(p) ==
    /\ pc[p] = "L61"
    /\ h' = [h EXCEPT ![p] = StepWidth(a[p], b[p], n[p])]
    /\ pc' = [pc EXCEPT ![p] = "L62init"]
    /\ UNCHANGED <<args, value, i, y, fa, fb, calls, ret, caller>>

\* line 62: int i = 1
L62init(p) ==
    /\ pc[p] = "L62init"
    /\ i' = [i EXCEPT ![p] = 1]
    /\ pc' = [pc EXCEPT ![p] = "L62"]
    /\ UNCHANGED <<args, value, h, y, fa, fb, calls, ret, caller>>

\* lines 62, 64: the condition holds, func is invoked at a + (i * h)
L64call(p) ==
    /\ pc[p] = "L62"
    /\ LoopCond(i[p], n[p])
    /\ y' = [y EXCEPT ![p] = Apply(func[p], Point(a[p], h[p], i[p]))]
    /\ calls' = [calls EXCEPT ![p] = Append(@, Point(a[p], h[p], i[p]))]
    /\ pc' = [pc EXCEPT ![p] = "L64"]
    /\ UNCHANGED <<args, value, h, i, fa, fb, ret, caller>>

\* a slip: value is one static variable, shared by every activation
L64addShared(p) ==
    /\ pc[p] = "L64"
    /\ value' = [q \in Sites |-> Accumulate(value[p], y[p])]
    /\ i' = [i EXCEPT ![p] = @ + 1]
    /\ pc' = [pc EXCEPT ![p] = "L62"]
    /\ UNCHANGED <<args, h, y, fa, fb, calls, ret, caller>>

\* lines 64, 62: value += the value returned; i++
L64add(p) ==
    /\ pc[p] = "L64"
    /\ value' = [value EXCEPT ![p] = Accumulate(@, y[p])]
    /\ i' = [i EXCEPT ![p] = @ + 1]
    /\ pc' = [pc EXCEPT ![p] = "L62"]
    /\ UNCHANGED <<args, h, y, fa, fb, calls, ret, caller>>

\* line 62: the condition fails, the loop is left
L62exit(p) ==
    /\ pc[p] = "L62"
    /\ ~LoopCond(i[p], n[p])
    /\ pc' = [pc EXCEPT ![p] = "L67"]
    /\ UNCHANGED <<args, value, h, i, y, fa, fb, calls, ret, caller>>

\* line 67: func(a) is invoked (the operands of + are evaluated in either order)
L67callA(p) ==
    /\ pc[p] = "L67"
    /\ fa[p] = Unset
    /\ fa' = [fa EXCEPT ![p] = Apply(func[p], a[p])]
    /\ calls' = [calls EXCEPT ![p] = Append(@, a[p])]
    /\ UNCHANGED <<pc, args, value, h, i, y, fb, ret, caller>>

\* line 67: func(b) is invoked
L67callB(p) ==
    /\ pc[p] = "L67"
    /\ fb[p] = Unset
    /\ fb' = [fb EXCEPT ![p] = Apply(func[p], b[p])]
    /\ calls' = [calls EXCEPT ![p] = Append(@, b[p])]
    /\ UNCHANGED <<pc, args, value, h, i, y, fa, ret, caller>>

\* line 67: value = (func(a) + 2 * value + func(b)) * h / 2
L67assign(p) ==
    /\ pc[p] = "L67"
    /\ fa[p] # Unset
    /\ fb[p] # Unset
    /\ value' = [value EXCEPT ![p] = Combine(fa[p], @, fb[p], h[p])]
    /\ pc' = [pc EXCEPT ![p] = "L68"]
    /\ UNCHANGED <<args, h, i, y, fa, fb, calls, ret, caller>>

\* line 68: return value
L68(p) ==
    /\ pc[p] = "L68"
    /\ ret' = [ret EXCEPT ![p] = value[p]]
    /\ pc' = [pc EXCEPT ![p] = "done"]
    /\ UNCHANGED <<args, value, h, i, y, fa, fb, calls, caller>>

\* one step of the activation of call site p
Step(p) ==
    \/ L60(p)
    \/ L61(p)
    \/ L62init(p)
    \/ L64call(p)
    \/ L64add(p)
    \/ L62exit(p)
    \/ L67callA(p)
    \/ L67callB(p)
    \/ L67assign(p)
    \/ L68(p)

(***************************************************************************)
(* Spec: one call, with every input of the model.                          *)
(***************************************************************************)
Funcs == BaseFuncs \cup CombinedFuncs

Idle == [p \in Sites |-> Unset]

Init ==
    /\ \E f \in Funcs : func = [p \in Sites |-> f]
    /\ \E x \in Ends : a = [p \in Sites |-> FromInt(x)]
    /\ \E x \in Ends : b = [p \in Sites |-> FromInt(x)]
    /\ \E m \in 0..MaxN : n = [p \in Sites |-> m]
    /\ pc = [p \in Sites |-> IF p = 1 THEN "L60" ELSE "idle"]
    /\ value = Idle
    /\ h = Idle
    /\ i = [p \in Sites |-> 0]
    /\ y = Idle
    /\ fa = Idle
    /\ fb = Idle
    /\ calls = [p \in Sites |-> <<>>]
    /\ ret = Idle
    /\ ncalls = [p \in Sites |-> IF p = 1 THEN 1 ELSE 0]
    /\ tpc = "none"

Next ==
    \/ L60(1)
    \/ L61(1)
    \/ L62init(1)
    \/ L64call(1)
    \/ L64add(1)
    \/ L62exit(1)
    \/ L67callA(1)
    \/ L67callB(1)
    \/ L67assign(1)
    \/ L68(1)

Spec == Init /\ [][Next]_vars

(***************************************************************************)
(* Reference values, in exact arithmetic.                                  *)
(***************************************************************************)
Done(p) == pc[p] = "done"

\* the exact step width (b - a) / n, n >= 1
ExactStep(a0, b0, n0) == qdiv(qsub(b0, a0), FromInt(n0))

\* the exact grid point a + j * h
ExactPoint(a0, b0, n0, j) == qadd(a0, qmul(FromInt(j), ExactStep(a0, b0, n0)))

\* the integrand's value at the j-th grid point
Sample(f, a0, b0, n0, j) == Apply(f, ExactPoint(a0, b0, n0, j))

\* the sum of the samples 1..j
RECURSIVE SampleSum(_, _, _, _, _)
SampleSum(f, a0, b0, n0, j) ==
    IF j < 1 THEN Zero
    ELSE qadd(SampleSum(f, a0, b0, n0, j - 1), Sample(f, a0, b0, n0, j))

\* (f(a) + 2 S + f(b)) h / 2
WeightedSum(f, a0, b0, n0) ==
    qdiv(qmul(qadd(qadd(Apply(f, a0), qmul(Two, SampleSum(f, a0, b0, n0, n0 - 1))),
                   Apply(f, b0)),
              ExactStep(a0, b0, n0)),
         Two)

\* the area h (f(x_j) + f(x_j+1)) / 2 of panel j
Panel(f, a0, b0, n0, j) ==
    qdiv(qmul(ExactStep(a0, b0, n0),
              qadd(Sample(f, a0, b0, n0, j), Sample(f, a0, b0, n0, j + 1))),
         Two)

\* the sum of the panels 0..j
RECURSIVE PanelSum(_, _, _, _, _)
PanelSum(f, a0, b0, n0, j) ==
    IF j < 0 THEN Zero
    ELSE qadd(PanelSum(f, a0, b0, n0, j - 1), Panel(f, a0, b0, n0, j))

(***************************************************************************)
(* C1: for n >= 1 a call returns (f(a) + 2 S + f(b)) h / 2 with            *)
(* h = (b - a) / n and S the sum of f(a + i h), i = 1..n-1, and that value *)
(* is the sum of the n panel areas h (f(x_i) + f(x_i+1)) / 2, in exact     *)
(* arithmetic (whenever the call's result is finite, so that no operation  *)
(* of the call left the finite range).                                     *)
(***************************************************************************)
C1_FormulaIsCompositeSum ==
    \A p \in Sites :
        Done(p) /\ n[p] >= 1 /\ IsFinite(ret[p]) =>
            /\ ret[p] = WeightedSum(func[p], a[p], b[p], n[p])
            /\ ret[p] = PanelSum(func[p], a[p], b[p], n[p], n[p] - 1)

C1_Witness ==
    /\ Done(1) /\ n[1] >= 3 /\ a[1] # b[1]
    /\ func[1] = Poly(1, 0, 2, 0, 1)
    /\ IsFinite(ret[1]) /\ ret[1] # Zero

(***************************************************************************)
(* C3: for n >= 1 a call invokes func exactly n + 1 times: at the interior *)
(* points a + i h in increasing order of i, then at a and at b (in either  *)
(* order), and nowhere else.                                               *)
(***************************************************************************)
C3_EvaluationPoints ==
    \A p \in Sites :
        Done(p) /\ n[p] >= 1 =>
            /\ Len(calls[p]) = n[p] + 1
            /\ \A j \in 1..(n[p] - 1) : calls[p][j] = ExactPoint(a[p], b[p], n[p], j)
            /\ \/ calls[p][n[p]] = a[p] /\ calls[p][n[p] + 1] = b[p]
               \/ calls[p][n[p]] = b[p] /\ calls[p][n[p] + 1] = a[p]

C3_Witness ==
    /\ Done(1) /\ n[1] >= 3 /\ a[1] # b[1]
    /\ Len(calls[1]) = n[1] + 1
    /\ calls[1][n[1]] = b[1]

(***************************************************************************)
(* C4: a call over a zero-width interval, with func finite at a and        *)
(* n >= 1, returns exactly 0.                                              *)
(***************************************************************************)
C4_ZeroWidthIsZero ==
    \A p \in Sites :
        Done(p) /\ n[p] >= 1 /\ a[p] = b[p] /\ IsFinite(Apply(func[p], a[p])) =>
            ret[p] = Zero

(***************************************************************************)
(* C5: for n >= 1, trapezoidal_rule(f, a, b, n) is the negation of         *)
(* trapezoidal_rule(f, b, a, n), in exact arithmetic (both values finite). *)
(***************************************************************************)
C5_ReversalAntisymmetry ==
    \A p \in Sites :
        Done(p) /\ n[p] >= 1 /\ IsFinite(ret[p])
                /\ IsFinite(trapezoidal_rule(func[p], b[p], a[p], n[p])) =>
            ret[p] = qneg(trapezoidal_rule(func[p], b[p], a[p], n[p]))

C5_Witness ==
    /\ Done(1) /\ n[1] >= 3 /\ qle(b[1], a[1]) /\ a[1] # b[1]
    /\ func[1] = Poly(0, 1, 0, 0 - 1, 0)
    /\ IsFinite(ret[1]) /\ ret[1] # Zero
    /\ IsFinite(trapezoidal_rule(func[1], b[1], a[1], n[1]))

(***************************************************************************)
(* C6: for a linear integrand c0 + c1 x and n >= 1 the call returns the    *)
(* true integral c0 (b - a) + c1 (b^2 - a^2) / 2, whatever n is, in exact  *)
(* arithmetic (the call's result finite).                                  *)
(***************************************************************************)
LinearIntegral(c0, c1, a0, b0) ==
    qadd(qmul(FromInt(c0), qsub(b0, a0)),
         qdiv(qmul(FromInt(c1), qsub(qmul(b0, b0), qmul(a0, a0))), Two))

C6_ExactOnLinear ==
    \A p \in Sites :
        Done(p) /\ n[p] >= 1 /\ func[p] \in LinearFuncs \cup {Huge} /\ IsFinite(ret[p]) =>
            ret[p] = LinearIntegral(func[p].c[1], func[p].c[2], a[p], b[p])

C6_Witness ==
    /\ Done(1) /\ n[1] >= 3 /\ a[1] # b[1]
    /\ func[1] = Poly(0 - 1, 2, 0, 0, 0)
    /\ IsFinite(ret[1]) /\ ret[1] # Zero

(***************************************************************************)
(* C7: convergence.  The exact integral of a polynomial integrand, and the *)
(* absolute error of the rule against it.                                  *)
(***************************************************************************)
RECURSIVE qpow(_, _)
qpow(x, e) == IF e = 0 THEN FromInt(1) ELSE qmul(x, qpow(x, e - 1))

\* the integral over [a, b] of the monomial c x^e
MonomialIntegral(c, e, a0, b0) ==
    qdiv(qmul(FromInt(c), qsub(qpow(b0, e + 1), qpow(a0, e + 1))), FromInt(e + 1))

PolyIntegral(f, a0, b0) ==
    qadd(MonomialIntegral(f.c[1], 0, a0, b0),
      qadd(MonomialIntegral(f.c[2], 1, a0, b0),
        qadd(MonomialIntegral(f.c[3], 2, a0, b0),
          qadd(MonomialIntegral(f.c[4], 3, a0, b0),
               MonomialIntegral(f.c[5], 4, a0, b0)))))

\* | t - the exact integral |
AbsError(t, f, a0, b0) == qabs(qsub(t, PolyIntegral(f, a0, b0)))

\* A x^2 + B x + C >= 0 for every x between the integers lo <= hi
NonNegOn(A, B, C, lo, hi) ==
    /\ A * lo * lo + B * lo + C >= 0
    /\ A * hi * hi + B * hi + C >= 0
    /\ (A > 0 /\ 2 * A * lo < 0 - B /\ 0 - B < 2 * A * hi) => 4 * A * C - B * B >= 0

Min(x, z) == IF x <= z THEN x ELSE z
Max(x, z) == IF x <= z THEN z ELSE x

\* the second derivative 2 c2 + 6 c3 x + 12 c4 x^2 of the polynomial f does not
\* change sign between the integer bounds a and b: f is convex or concave there
ConvexOrConcave(f, a0, b0) ==
    LET A == 12 * f.c[5]
        B == 6 * f.c[4]
        C == 2 * f.c[3]
        lo == Min(a0.n, b0.n)
        hi == Max(a0.n, b0.n)
    IN  NonNegOn(A, B, C, lo, hi) \/ NonNegOn(0 - A, 0 - B, 0 - C, lo, hi)

\* the error with 2n subdivisions is not larger than the error of the call
ErrorNotLargerWhenDoubled(p) ==
    qle(AbsError(trapezoidal_rule(func[p], a[p], b[p], 2 * n[p]), func[p], a[p], b[p]),
        AbsError(ret[p], func[p], a[p], b[p]))

ConvergenceCase(p) ==
    /\ Done(p) /\ n[p] >= 1 /\ func[p].kind = "poly"
    /\ IsFinite(ret[p])
    /\ IsFinite(trapezoidal_rule(func[p], a[p], b[p], 2 * n[p]))

(***************************************************************************)
(* C7 as stated: for a smooth integrand (here: a polynomial), doubling n   *)
(* never makes the absolute error larger.                                  *)
(***************************************************************************)
C7_ErrorNeverGrowsWhenDoubled ==
    \A p \in Sites : ConvergenceCase(p) => ErrorNotLargerWhenDoubled(p)

(***************************************************************************)
(* C7 amended: for a smooth integrand whose second derivative does not     *)
(* change sign on the interval (a convex or a concave integrand), doubling *)
(* n never makes the absolute error larger, in exact arithmetic.           *)
(***************************************************************************)
C7_ErrorNeverGrowsWhenDoubledConvex ==
    \A p \in Sites :
        ConvergenceCase(p) /\ ConvexOrConcave(func[p], a[p], b[p]) =>
            ErrorNotLargerWhenDoubled(p)

C7_Witness ==
    /\ ConvergenceCase(1) /\ n[1] >= 2 /\ a[1] # b[1]
    /\ func[1] = Poly(1, 0, 2, 0, 1)
    /\ ConvexOrConcave(func[1], a[1], b[1])
    /\ ErrorNotLargerWhenDoubled(1)
    /\ AbsError(ret[1], func[1], a[1], b[1]) # Zero

(***************************************************************************)
(* C8: for n >= 1 the call on x -> al f(x) + be g(x) returns               *)
(* al trapezoidal_rule(f, a, b, n) + be trapezoidal_rule(g, a, b, n), in   *)
(* exact arithmetic (the three values finite).                             *)
(***************************************************************************)
C8_Linearity ==
    \A p \in Sites :
        Done(p) /\ n[p] >= 1 /\ func[p].kind = "comb" /\ IsFinite(ret[p])
                /\ IsFinite(trapezoidal_rule(func[p].f, a[p], b[p], n[p]))
                /\ IsFinite(trapezoidal_rule(func[p].g, a[p], b[p], n[p])) =>
            ret[p] = qadd(qmul(FromInt(func[p].al),
                               trapezoidal_rule(func[p].f, a[p], b[p], n[p])),
                          qmul(FromInt(func[p].be),
                               trapezoidal_rule(func[p].g, a[p], b[p], n[p])))

C8_Witness ==
    /\ Done(1) /\ n[1] >= 3 /\ a[1] # b[1]
    /\ func[1] = Comb(2, Recip, 0 - 1, Poly(0, 0, 0 - 9, 0, 5))
    /\ IsFinite(ret[1]) /\ ret[1] # Zero
    /\ IsFinite(trapezoidal_rule(Recip, a[1], b[1], n[1]))

(***************************************************************************)
(* C9: a call with n = 0 runs to its return; h is Inf when a # b and NaN   *)
(* when a = b, no interior point is evaluated, and the value returned is   *)
(* not finite.                                                             *)
(***************************************************************************)
C9_ZeroSubdivisions ==
    \A p \in Sites :
        /\ Done(p) /\ n[p] = 0 =>
              /\ IF a[p] = b[p] THEN IsNaN(h[p]) ELSE IsInf(h[p])
              /\ Len(calls[p]) = 2
              /\ ~IsFinite(ret[p])
              /\ ret[p] # Unset
        /\ n[p] = 0 => pc[p] # "L64" /\ (pc[p] = "L62" => ~LoopCond(i[p], n[p]))

C9_Witness ==
    /\ Done(1) /\ n[1] = 0 /\ a[1] # b[1] /\ IsInf(ret[1])
    /\ func[1] = Poly(0, 0, 1, 0, 0)

(***************************************************************************)
(* SpecConc: two call sites calling concurrently and repeatedly.  Each     *)
(* site's activation has its own parameters and locals (they are automatic *)
(* variables of trapezoidal_rule); the steps of the two activations        *)
(* interleave freely.                                                      *)
(***************************************************************************)
\* largest n drawn by the concurrent call sites
MaxConcN == 3
\* the calls one site makes, one after the other
MaxCalls == 2

ConcFuncs == {Poly(0, 0, 1, 0, 0), Recip}
ConcEnds == {1, 2}

\* call site p calls trapezoidal_rule(f, a0, b0, n0): a fresh activation
Call(p, f, a0, b0, n0) ==
    /\ func' = [func EXCEPT ![p] = f]
    /\ a' = [a EXCEPT ![p] = a0]
    /\ b' = [b EXCEPT ![p] = b0]
    /\ n' = [n EXCEPT ![p] = n0]
    /\ Fresh(p)
    /\ pc' = [pc EXCEPT ![p] = "L60"]
    /\ ncalls' = [ncalls EXCEPT ![p] = @ + 1]

\* a site whose call has returned calls again
Recall(p) ==
    /\ pc[p] = "done"
    /\ ncalls[p] < MaxCalls
    /\ \E f \in ConcFuncs, x \in ConcEnds, m \in 0..MaxConcN :
           Call(p, f, FromInt(1), FromInt(x), m)
    /\ UNCHANGED tpc

InitConc ==
    /\ func \in [Sites -> ConcFuncs]
    /\ a = [p \in Sites |-> FromInt(1)]
    /\ b \in [Sites -> {FromInt(x) : x \in ConcEnds}]
    /\ n \in [Sites -> 0..MaxConcN]
    /\ pc = [p \in Sites |-> "L60"]
    /\ value = Idle
    /\ h = Idle
    /\ i = [p \in Sites |-> 0]
    /\ y = Idle
    /\ fa = Idle
    /\ fb = Idle
    /\ calls = [p \in Sites |-> <<>>]
    /\ ret = Idle
    /\ ncalls = [p \in Sites |-> 1]
    /\ tpc = "none"

NextConc == \E p \in Sites : Step(p) \/ Recall(p)

SpecConc == InitConc /\ [][NextConc]_vars

(***************************************************************************)
(* C10: whatever the interleaving with the other site's steps, and         *)
(* whatever calls were made before, a call returns the value it returns    *)
(* when it runs alone on the same arguments.                               *)
(***************************************************************************)
C10_CallIndependence ==
    \A p \in Sites :
        Done(p) => ret[p] = trapezoidal_rule(func[p], a[p], b[p], n[p])

C10_Witness ==
    /\ Done(1) /\ ncalls[1] = 2 /\ n[1] = 3 /\ a[1] # b[1]
    /\ pc[2] = "L64" /\ i[2] = 2 /\ func[2] # func[1]
    /\ IsFinite(ret[1]) /\ ret[1] # Zero

(***************************************************************************)
(* SpecTest: test(), lines 77-89, calling from site 1.  Its doubles are    *)
(* enclosures in units of 1 / Scale.                                       *)
(***************************************************************************)
\* the double of an integer literal m.0, and of a literal of m millionths
Real(m) == Iv(m * Scale, m * Scale)
Micro(m) == Iv(m * (Scale \div (10 ^ 6)), m * (Scale \div (10 ^ 6)))

\* the literals of lines 85-87, in millionths
Expected85 == 693771
Expected86 == 632647
Expected87 == 785294
Tolerance == 1

\* the call and the expected value of the assertion at a line
Scenario(line) ==
    CASE line = "T85" ->
           [f |-> Recip, a |-> Real(1), b |-> Real(2), n |-> 10,
            expected |-> Micro(Expected85), next |-> "T86"]
      [] line = "T86" ->
           [f |-> ExpNegX, a |-> Real(0), b |-> Real(1), n |-> 10,
            expected |-> Micro(Expected86), next |-> "T87"]
      [] line = "T87" ->
           [f |-> RecipSq, a |-> Real(0), b |-> Real(1), n |-> 20,
            expected |-> Micro(Expected87), next |-> "T88"]

AssertLines == {"T85", "T86", "T87"}

\* abs(result - expected) < 1e-6
WithinTolerance(result, expected) ==
    flt(fabs(fsub(result, expected)), Micro(Tolerance))

\* lines 85-87: the call inside the assertion
TestCall ==
    /\ tpc \in AssertLines
    /\ pc[1] = "idle"
    /\ Call(1, Scenario(tpc).f, Scenario(tpc).a, Scenario(tpc).b, Scenario(tpc).n)
    /\ UNCHANGED tpc

\* lines 85-87: the assertion on the value returned; a failed assert aborts
TestAssert ==
    /\ tpc \in AssertLines
    /\ pc[1] = "done"
    /\ tpc' = IF WithinTolerance(ret[1], Scenario(tpc).expected)
              THEN Scenario(tpc).next
              ELSE "aborted"
    /\ pc' = [pc EXCEPT ![1] = "idle"]
    /\ UNCHANGED <<args, value, h, i, y, fa, fb, calls, ret, ncalls>>

\* line 88: cout << "All Test Cleared!"
TestCleared ==
    /\ tpc = "T88"
    /\ tpc' = "cleared"
    /\ UNCHANGED <<pc, args, value, h, i, y, fa, fb, calls, ret, ncalls>>

InitTest ==
    /\ tpc = "T85"
    /\ func = [p \in Sites |-> Recip]
    /\ a = Idle
    /\ b = Idle
    /\ n = [p \in Sites |-> 0]
    /\ pc = [p \in Sites |-> "idle"]
    /\ value = Idle
    /\ h = Idle
    /\ i = [p \in Sites |-> 0]
    /\ y = Idle
    /\ fa = Idle
    /\ fb = Idle
    /\ calls = [p \in Sites |-> <<>>]
    /\ ret = Idle
    /\ ncalls = [p \in Sites |-> 0]

NextTest ==
    \/ TestCall
    \/ Step(1)
    \/ TestAssert
    \/ TestCleared

SpecTest == InitTest /\ [][NextTest]_vars

(***************************************************************************)
(* C2: each of the three calls of test() returns a value within 1e-6 of    *)
(* the expected value of its assertion, so no assertion aborts and test()  *)
(* reaches the success message.                                            *)
(***************************************************************************)
C2_TestPasses ==
    /\ tpc # "aborted"
    /\ (tpc \in AssertLines /\ Done(1)) =>
           WithinTolerance(ret[1], Scenario(tpc).expected)

C2_Witness == tpc = "cleared" /\ ncalls[1] = 3

=============================================================================
